---- MODULE Spec2Model ----
(***************************************************************************)
(* inform-compile.py: batch compilation of Inform source files.            *)
(*                                                                         *)
(* Python strings are modelled as sequences of one-character strings, so   *)
(* that split, strip, lower, slicing and concatenation are computed the    *)
(* way the script computes them.  None and the empty string are both the   *)
(* empty sequence: the script only ever tests such options with `not x`.   *)
(***************************************************************************)
EXTENDS Integers, Sequences, FiniteSets, TLC

VARIABLES
    args,            \* the docopt dictionary; the loop body assigns into it
    argv,            \* the options as given on the command line (never assigned)
    fs,              \* regular files: path -> [lines, bytes]
    pc,              \* position of the script
    i,               \* index into args.infiles of the file being handled
    command,         \* the list `command`
    infiledirname,   \* loop locals
    infilebasename,
    infileextension,
    metadata,
    storyfilename,
    log,             \* records emitted at WARNING level or above
    invoked,         \* command lines handed to subprocess.call
    exitcode,        \* process exit status, -1 while running
    raised,          \* name of the uncaught exception that ended the run
    exitat           \* source line at which the run ended, 0 while running

vars == <<args, argv, fs, pc, i, command, infiledirname, infilebasename,
          infileextension, metadata, storyfilename, log, invoked, exitcode,
          raised, exitat>>

(***************************************************************************)
(* Bounds of the model.                                                    *)
(***************************************************************************)
MaxFiles == 2

(***************************************************************************)
(* String literals of the script.                                          *)
(***************************************************************************)
S_release == <<"r", "e", "l", "e", "a", "s", "e">>
S_serial == <<"s", "e", "r", "i", "a", "l">>
S_sprog == <<"s", "p", "r", "o", "g">>
S_ReleaseSp == <<"R", "e", "l", "e", "a", "s", "e", " ">>
S_SerialSpQ == <<"S", "e", "r", "i", "a", "l", " ", "\"">>
S_dotinf == <<".", "i", "n", "f">>
S_dotslash == <<".", "/">>
S_dotz == <<".", "z">>
S_dotjs == <<".", "j", "s">>
S_development == <<"d", "e", "v", "e", "l", "o", "p", "m", "e", "n", "t">>
S_danish == <<"d", "a", "n", "i", "s", "h">>
S_dansk == <<"d", "a", "n", "s", "k">>
S_Cu == <<"-", "C", "u">>
S_nS == <<"-", "~", "S">>
S_SDX == <<"-", "S", "D", "X">>
S_s == <<"-", "s">>
S_language_name == <<"+", "l", "a", "n", "g", "u", "a", "g", "e", "_", "n", "a", "m", "e", "=", "D", "a", "n", "i", "s", "h">>
S_processBase64Zcode == <<"p", "r", "o", "c", "e", "s", "s", "B", "a", "s", "e", "6", "4", "Z", "c", "o", "d", "e", "(", "'">>
S_jsclose == <<"'", ")", ";">>
DefaultRelease == <<"1">>

Upper == <<"A", "B", "C", "D", "E", "F", "G", "H", "I", "J", "K", "L", "M", "N", "O", "P", "Q", "R", "S", "T", "U", "V", "W", "X", "Y", "Z">>
Lower == <<"a", "b", "c", "d", "e", "f", "g", "h", "i", "j", "k", "l", "m", "n", "o", "p", "q", "r", "s", "t", "u", "v", "w", "x", "y", "z">>
Digits == {"0", "1", "2", "3", "4", "5", "6", "7", "8", "9"}
Range(s) == {s[k] : k \in DOMAIN s}
\* \w of the re module, on ASCII text
WordChars == Range(Upper) \cup Range(Lower) \cup Digits \cup {"_"}
\* what str.strip() and str.split() without argument treat as whitespace
Whitespace == {" ", "\n", "\t", "\r"}

(***************************************************************************)
(* Python string operations.                                               *)
(***************************************************************************)
\* str.lower()
lowerchar(c) ==
    IF \E k \in DOMAIN Upper : Upper[k] = c
    THEN Lower[CHOOSE k \in DOMAIN Upper : Upper[k] = c]
    ELSE c
lower(s) == [k \in DOMAIN s |-> lowerchar(s[k])]

\* s.startswith(p)
startswith(s, p) == Len(s) >= Len(p) /\ SubSeq(s, 1, Len(p)) = p

\* s.rfind(c), 1-based; 0 when c does not occur
rfind(s, c) ==
    IF \E k \in DOMAIN s : s[k] = c
    THEN CHOOSE k \in DOMAIN s : s[k] = c /\ \A j \in DOMAIN s : s[j] = c => j <= k
    ELSE 0

\* s.find(c), 1-based; 0 when c does not occur
find(s, c) ==
    IF \E k \in DOMAIN s : s[k] = c
    THEN CHOOSE k \in DOMAIN s : s[k] = c /\ \A j \in DOMAIN s : s[j] = c => j >= k
    ELSE 0

\* s.split(sep) for a one-character separator: the pieces between occurrences
RECURSIVE split(_, _)
split(s, sep) ==
    LET k == find(s, sep)
    IN IF k = 0 THEN <<s>>
       ELSE <<SubSeq(s, 1, k - 1)>> \o split(SubSeq(s, k + 1, Len(s)), sep)

\* s.rstrip(chars), s.lstrip(chars)
RECURSIVE rstrip(_, _)
rstrip(s, chars) ==
    IF s /= <<>> /\ s[Len(s)] \in chars
    THEN rstrip(SubSeq(s, 1, Len(s) - 1), chars) ELSE s
RECURSIVE lstrip(_, _)
lstrip(s, chars) ==
    IF s /= <<>> /\ s[1] \in chars THEN lstrip(Tail(s), chars) ELSE s
\* s.strip()
strip(s) == lstrip(rstrip(s, Whitespace), Whitespace)

\* the longest prefix of s made of characters of set
RECURSIVE takewhile(_, _)
takewhile(s, set) ==
    IF s /= <<>> /\ s[1] \in set THEN <<s[1]>> \o takewhile(Tail(s), set) ELSE <<>>

\* sep.join(list)
RECURSIVE join(_, _)
join(list, sep) ==
    IF list = <<>> THEN <<>>
    ELSE IF Len(list) = 1 THEN list[1]
    ELSE list[1] \o sep \o join(Tail(list), sep)

\* the longest prefix of s free of whitespace
RECURSIVE word(_)
word(s) ==
    IF s /= <<>> /\ s[1] \notin Whitespace THEN <<s[1]>> \o word(Tail(s)) ELSE <<>>

\* s.split() without argument: the whitespace-separated words
RECURSIVE splitws(_)
splitws(s) ==
    LET t == lstrip(s, Whitespace)
        w == word(t)
    IN IF t = <<>> THEN <<>>
       ELSE <<w>> \o splitws(SubSeq(t, Len(w) + 1, Len(t)))

(***************************************************************************)
(* os.path                                                                 *)
(***************************************************************************)
\* os.path.split(p): (head, tail) around the last slash; trailing slashes
\* are stripped from head unless it is all slashes
ospathsplit(p) ==
    LET k == rfind(p, "/")
        head == SubSeq(p, 1, k)
        tail == SubSeq(p, k + 1, Len(p))
    IN <<IF head /= <<>> /\ Range(head) /= {"/"} THEN rstrip(head, {"/"}) ELSE head,
         tail>>

\* os.path.splitext(p): (root, ext) around the last dot, unless that dot is
\* one of the leading dots of the name
ospathsplitext(p) ==
    LET sepIndex == rfind(p, "/")
        dotIndex == rfind(p, ".")
    IN IF dotIndex > sepIndex
          /\ \E k \in (sepIndex + 1)..(dotIndex - 1) : p[k] /= "."
       THEN <<SubSeq(p, 1, dotIndex - 1), SubSeq(p, dotIndex, Len(p))>>
       ELSE <<p, <<>>>>

\* The file system's view of a path: a leading "./" and trailing slashes do
\* not change what the path names.
RECURSIVE resolve(_)
resolve(p) ==
    IF startswith(p, S_dotslash) /\ Len(p) > Len(S_dotslash)
    THEN resolve(SubSeq(p, Len(S_dotslash) + 1, Len(p)))
    ELSE IF Len(p) > 1 /\ p[Len(p)] = "/" THEN resolve(SubSeq(p, 1, Len(p) - 1))
    ELSE p

(***************************************************************************)
(* getmetadata                                                             *)
(***************************************************************************)
\* re.findall('^! \w+:', line) is non-empty
matches_pattern(line) ==
    /\ startswith(line, <<"!", " ">>)
    /\ LET w == takewhile(SubSeq(line, 3, Len(line)), WordChars)
       IN /\ w /= <<>>
          /\ Len(line) >= Len(w) + 3
          /\ line[Len(w) + 3] = ":"

\* re.findall('^Release \d+', line): the matched text, <<>> when none
match_releasenumber(line) ==
    IF startswith(line, S_ReleaseSp)
    THEN LET d == takewhile(SubSeq(line, Len(S_ReleaseSp) + 1, Len(line)), Digits)
         IN IF d /= <<>> THEN S_ReleaseSp \o d ELSE <<>>
    ELSE <<>>

\* re.findall('^Serial "\d+"', line): the matched text, <<>> when none
match_serialnumber(line) ==
    IF startswith(line, S_SerialSpQ)
    THEN LET d == takewhile(SubSeq(line, Len(S_SerialSpQ) + 1, Len(line)), Digits)
             q == Len(S_SerialSpQ) + Len(d) + 1
         IN IF d /= <<>> /\ Len(line) >= q /\ line[q] = "\""
            THEN S_SerialSpQ \o d \o <<"\"">> ELSE <<>>
    ELSE <<>>

\* metadata[key] = value
setitem(m, key, value) ==
    [k \in DOMAIN m \cup {key} |-> IF k = key THEN value ELSE m[k]]

\* The loop of getmetadata over the lines from position n on, with the
\* dictionary and key list built so far.  error names the exception raised.
RECURSIVE scanlines(_, _, _, _)
scanlines(lines, n, m, keys) ==
    IF n > Len(lines) THEN [metadata |-> m, keys |-> keys, error |-> ""]
    ELSE LET line == lines[n]
         IN IF matches_pattern(line)
            THEN LET parts == split(line, ":")
                 IN IF Len(parts) /= 2
                    THEN \* fieldname, value = line.split(':') cannot unpack
                         [metadata |-> m, keys |-> keys, error |-> "ValueError"]
                    ELSE LET fieldname == lower(split(parts[1], " ")[2])
                             value == strip(rstrip(parts[2], {"\n"}))
                         IN scanlines(lines, n + 1, setitem(m, fieldname, value),
                                      Append(keys, fieldname))
            ELSE IF match_releasenumber(line) /= <<>>
            THEN scanlines(lines, n + 1,
                           setitem(m, S_release, splitws(match_releasenumber(line))[2]),
                           Append(keys, S_release))
            ELSE IF match_serialnumber(line) /= <<>>
            THEN LET q == splitws(match_serialnumber(line))[2]
                 IN scanlines(lines, n + 1,
                              setitem(m, S_serial, SubSeq(q, 2, Len(q) - 1)),
                              Append(keys, S_serial))
            ELSE IF line = <<"\n">>
            THEN [metadata |-> m, keys |-> keys, error |-> ""]
            ELSE scanlines(lines, n + 1, m, keys)

\* getmetadata(filename) on the files of files: open() raises when the path
\* names no regular file.  The files considered are ASCII text, which
\* chardet.detect reports as an encoding that open() decodes without error.
getmetadata(files, filename) ==
    IF resolve(filename) \notin DOMAIN files
    THEN [metadata |-> <<>>, keys |-> <<>>, error |-> "FileNotFoundError"]
    ELSE scanlines(files[resolve(filename)].lines, 1, <<>>, <<>>)

(***************************************************************************)
(* base64.b64encode and the formatting of its result                       *)
(***************************************************************************)
B64Alphabet == Upper \o Lower \o <<"0", "1", "2", "3", "4", "5", "6", "7", "8", "9", "+", "/">>
B64Char(n) == B64Alphabet[n + 1]

\* base64.b64encode(contents): the bytes object, as its ASCII characters
RECURSIVE b64encode(_)
b64encode(bs) ==
    IF bs = <<>> THEN <<>>
    ELSE IF Len(bs) = 1
    THEN LET n == bs[1] * 65536
         IN <<B64Char(n \div 262144), B64Char((n \div 4096) % 64), "=", "=">>
    ELSE IF Len(bs) = 2
    THEN LET n == bs[1] * 65536 + bs[2] * 256
         IN <<B64Char(n \div 262144), B64Char((n \div 4096) % 64),
              B64Char((n \div 64) % 64), "=">>
    ELSE LET n == bs[1] * 65536 + bs[2] * 256 + bs[3]
         IN <<B64Char(n \div 262144), B64Char((n \div 4096) % 64),
              B64Char((n \div 64) % 64), B64Char(n % 64)>>
            \o b64encode(SubSeq(bs, 4, Len(bs)))

\* '%s' % b for a bytes object b of printable ASCII without quotes or
\* backslashes: str(b), which is its repr
format_bytes(b) == <<"b", "'">> \o b \o <<"'">>

\* "processBase64Zcode('%s');" % encoded_contents
jscontents(encoded_contents) ==
    S_processBase64Zcode \o format_bytes(encoded_contents) \o S_jsclose

(***************************************************************************)
(* The inputs considered: the file system the script runs on and the      *)
(* command lines it is given.                                              *)
(***************************************************************************)
Line_BangRelease == <<"!", " ", "R", "e", "l", "e", "a", "s", "e", ":", " ", "7", "\n">>
Line_BangSerial == <<"!", " ", "S", "e", "r", "i", "a", "l", ":", " ", "\"", "2", "1", "0", "1", "0", "1", "\"", "\n">>
Line_BangSprog == <<"!", " ", "S", "p", "r", "o", "g", ":", " ", "D", "a", "n", "s", "k", "\n">>
Line_BangUrl == <<"!", " ", "U", "r", "l", ":", " ", "h", "t", "t", "p", ":", "/", "/", "x", "\n">>
Line_Release == <<"R", "e", "l", "e", "a", "s", "e", " ", "3", ";", "\n">>
Line_Serial == <<"S", "e", "r", "i", "a", "l", " ", "\"", "2", "0", "0", "2", "0", "2", "\"", ";", "\n">>
Line_Blank == <<"\n">>
Line_Code == <<"C", "o", "n", "s", "t", "a", "n", "t", " ", "S", "t", "o", "r", "y", ";", "\n">>
Line_Text == <<"t", "o", " ", "d", "o", "\n">>

Path_ax == <<"a", "/", "x", ".", "i", "n", "f">>
Path_by == <<"b", "/", "y", ".", "i", "n", "f">>
Path_z == <<"z", ".", "i", "n", "f">>
Path_notes == <<"a", "/", "n", "o", "t", "e", "s", ".", "t", "x", "t">>
Path_url == <<"b", "/", "u", "r", "l", ".", "t", "x", "t">>
Path_gone == <<"a", "/", "g", "o", "n", "e", ".", "i", "n", "f">>
Path_axz5 == <<"a", "/", "x", ".", "z", "5">>
Path_inform == <<"/", "b", "i", "n", "/", "i", "n", "f", "o", "r", "m">>
Path_noinform == <<"/", "b", "i", "n", "/", "n", "o", "n", "e">>
Path_tmp == <<"/", "t", "m", "p">>
Path_notmp == <<"/", "n", "o", "n", "e">>
Path_out == <<"o", "u", "t">>
Path_nodir == <<"n", "o", "d", "i", "r">>
S_lib == <<"l", "i", "b">>
S_prefix == <<"p", "_">>
S_suffix == <<"_", "b", "e", "t", "a">>
S_English == <<"E", "n", "g", "l", "i", "s", "h">>

\* the directories that exist
Directories == {<<"a">>, <<"b">>, <<".">>, Path_out, Path_tmp, <<"/", "b", "i", "n">>}

TextFile(lines) == [lines |-> lines, bytes |-> <<>>]
BinaryFile(bytes) == [lines |-> <<>>, bytes |-> bytes]

\* the regular files that exist when the script starts
InitialFiles ==
    LET names == {Path_ax, Path_by, Path_z, Path_notes, Path_url, Path_axz5, Path_inform}
    IN [p \in names |->
          IF p = Path_ax THEN TextFile(<<Line_BangRelease, Line_BangSerial, Line_Blank, Line_Code>>)
          ELSE IF p = Path_by THEN TextFile(<<Line_BangSprog, Line_Release, Line_Serial, Line_Blank>>)
          ELSE IF p = Path_z THEN TextFile(<<Line_Code, Line_Blank, Line_BangRelease>>)
          ELSE IF p = Path_notes THEN TextFile(<<Line_Text, Line_Blank>>)
          ELSE IF p = Path_url THEN TextFile(<<Line_BangUrl, Line_Text>>)
          ELSE BinaryFile(<<77>>)]

InputPaths == {Path_ax, Path_by, Path_z, Path_notes, Path_url, Path_gone}
InfileLists == UNION {[1..n -> InputPaths] : n \in 1..MaxFiles}

\* what time.strftime('%y%m%d') may return during a run
Dates == {<<"2", "6", "1", "1", "0", "5">>, <<"2", "6", "1", "1", "0", "6">>}

\* contents the compiler may write to a story file
StoryBytes == {<<>>, <<77>>, <<77, 97>>, <<77, 97, 110>>, <<0, 255, 16, 131>>}

\* the dictionary docopt returns for a command line naming only the
\* required options
DefaultArgs(infiles) ==
    [informbin |-> Path_inform, tmpdir |-> Path_tmp, devstage |-> S_release,
     dev |-> FALSE, language |-> S_English, librarypaths |-> <<>>,
     unicode |-> FALSE, outdirectory |-> <<>>, storyfileprefix |-> <<>>,
     storyfilesuffix |-> <<>>, nostorysuffix |-> FALSE,
     storyfileversion |-> <<"5">>, writejs |-> FALSE, force |-> FALSE,
     v |-> 0, infiles |-> infiles]

\* The command lines considered.  With a missing compiler or temporary
\* directory no other option is read, so those runs take the defaults.
CommandLines ==
    {[DefaultArgs(l) EXCEPT !.informbin = Path_noinform] : l \in InfileLists}
    \cup {[DefaultArgs(l) EXCEPT !.tmpdir = Path_notmp] : l \in InfileLists}
    \cup [informbin : {Path_inform}, tmpdir : {Path_tmp}, devstage : {S_release},
          dev : BOOLEAN, language : {S_English}, librarypaths : {<<>>, S_lib},
          unicode : BOOLEAN, outdirectory : {<<>>, Path_out, Path_nodir},
          storyfileprefix : {<<>>, S_prefix}, storyfilesuffix : {<<>>, S_suffix},
          nostorysuffix : BOOLEAN, storyfileversion : {<<"5">>},
          writejs : BOOLEAN, force : BOOLEAN, v : {0, 1}, infiles : InfileLists]

(***************************************************************************)
(* os.path.exists, os.path.isfile, os.path.isdir                           *)
(***************************************************************************)
isfile(files, p) == resolve(p) \in DOMAIN files
isdir(p) == resolve(p) \in Directories
exists(files, p) == isfile(files, p) \/ isdir(p)

(***************************************************************************)
(* Name lookup.  The names bound in the module namespace when the loop     *)
(* body runs: the imports, the top-level definitions and the assignments   *)
(* of the main block.  No builtin is called tmpdir.                        *)
(***************************************************************************)
ModuleNames ==
    {"base64", "chardet", "docopt", "hashlib", "humanize", "logging", "os",
     "re", "sys", "tempfile", "time", "subprocess", "version", "__doc__",
     "md5", "filesize", "getmetadata", "start_time", "args", "log",
     "formatstr", "command", "infile", "infiledirname", "infilename",
     "infilebasename", "infileextension", "metadata", "keys",
     "storyfile_releasenumber", "storyfile_serialnumber", "storyfilename"}
bound(name) == name \in ModuleNames

(***************************************************************************)
(* The filename resolver.                                                  *)
(***************************************************************************)
\* '_' + storyfile_releasenumber + '_' + storyfile_serialnumber
defaultsuffix(md, today) ==
    LET storyfile_releasenumber ==
            IF S_release \in DOMAIN md THEN md[S_release] ELSE DefaultRelease
        storyfile_serialnumber ==
            IF S_serial \in DOMAIN md THEN md[S_serial] ELSE today
    IN <<"_">> \o storyfile_releasenumber \o <<"_">> \o storyfile_serialnumber

\* the suffix statements with --nostorysuffix consulted only when no
\* --storyfilesuffix was given (an elif for the second if)
storyfilesuffix_elif(a, md, today) ==
    IF a.storyfilesuffix /= <<>> THEN a.storyfilesuffix
    ELSE IF a.nostorysuffix THEN <<>> ELSE defaultsuffix(md, today)

\* args['--storyfilesuffix'] after the two suffix statements
storyfilesuffix(a, md, today) ==
    LET given == IF a.storyfilesuffix = <<>> THEN defaultsuffix(md, today)
                 ELSE a.storyfilesuffix
    IN IF a.nostorysuffix THEN <<>> ELSE given

\* args['--outdirectory'] after defaulting, before the isdir test
outdirectory(a, dirname) ==
    IF a.outdirectory = <<>> THEN dirname ELSE a.outdirectory

\* ensure the directory ends in /
withslash(d) == IF d[Len(d)] /= "/" THEN d \o <<"/">> ELSE d

\* whether the run has to read the clock for this file
readsclock(a, md) == a.storyfilesuffix = <<>> /\ S_serial \notin DOMAIN md

Entry(level, what, about) == [level |-> level, what |-> what, about |-> about]

(***************************************************************************)
(* The script.                                                             *)
(***************************************************************************)
Init ==
    /\ argv \in CommandLines
    /\ args = argv
    /\ fs = InitialFiles
    /\ pc = "start"
    /\ i = 1
    /\ command = <<>>
    /\ infiledirname = <<>>
    /\ infilebasename = <<>>
    /\ infileextension = <<>>
    /\ metadata = <<>>
    /\ storyfilename = <<>>
    /\ log = <<>>
    /\ invoked = <<>>
    /\ exitcode = -1
    /\ raised = ""
    /\ exitat = 0

\* the --dev shortcut and the checks of the compiler binary and the
\* temporary directory, up to the start of the loop
CheckEnvironment ==
    /\ pc = "start"
    /\ LET a == IF args.dev THEN [args EXCEPT !.devstage = S_development] ELSE args
       IN /\ args' = a
          /\ IF ~exists(fs, a.informbin)
             THEN /\ log' = Append(log, Entry("ERROR", "Inform binary not found", a.informbin))
                  /\ exitcode' = 1 /\ exitat' = 127 /\ pc' = "exited"
                  /\ UNCHANGED command
             ELSE /\ command' = <<a.informbin>>
                  /\ IF ~exists(fs, a.tmpdir)
                     THEN /\ log' = Append(log, Entry("ERROR", "Temporary directory not found", a.tmpdir))
                          /\ exitcode' = 1 /\ exitat' = 133 /\ pc' = "exited"
                     ELSE /\ pc' = "loop"
                          /\ UNCHANGED <<log, exitcode, exitat>>
    /\ UNCHANGED <<argv, fs, i, infiledirname, infilebasename, infileextension,
                   metadata, storyfilename, invoked, raised>>

\* the first part of the loop body: the names of the input file, its
\* metadata, and the output name derived from them
ResolveStoryfile ==
    /\ pc = "loop"
    /\ i <= Len(args.infiles)
    /\ LET infile == args.infiles[i]
           parts == ospathsplit(infile)
           dirname == IF parts[1] = <<>> THEN S_dotslash ELSE parts[1]
           nameparts == ospathsplitext(parts[2])
           got == getmetadata(fs, infile)
           dir == outdirectory(args, dirname)
       IN /\ infiledirname' = dirname
          /\ infilebasename' = nameparts[1]
          /\ infileextension' = nameparts[2]
          /\ IF got.error /= ""
             THEN \* the exception leaves getmetadata and the script uncaught
                  /\ raised' = got.error /\ exitcode' = 1 /\ exitat' = 142
                  /\ pc' = "exited"
                  /\ UNCHANGED <<args, metadata, storyfilename, log>>
             ELSE /\ metadata' = got.metadata
                  /\ IF ~isdir(dir)
                     THEN /\ args' = [args EXCEPT !.outdirectory = dir]
                          /\ log' = Append(log, Entry("ERROR", "Output directory not found", dir))
                          /\ exitcode' = 1 /\ exitat' = 153 /\ pc' = "exited"
                          /\ UNCHANGED <<storyfilename, raised>>
                     ELSE \E today \in IF readsclock(args, got.metadata) THEN Dates
                                       ELSE {CHOOSE d \in Dates : TRUE} :
                            LET suffix == storyfilesuffix(args, got.metadata, today)
                            IN /\ args' = [args EXCEPT !.outdirectory = withslash(dir),
                                                       !.storyfilesuffix = suffix]
                               /\ storyfilename' =
                                     withslash(dir) \o args.storyfileprefix
                                     \o nameparts[1] \o suffix \o S_dotz
                                     \o args.storyfileversion
                               /\ pc' = "check"
                               /\ UNCHANGED <<log, exitcode, exitat, raised>>
    /\ UNCHANGED <<argv, fs, i, command, invoked>>

\* the three tests that skip a file
SkipChecks ==
    /\ pc = "check"
    /\ LET infile == args.infiles[i]
       IN IF ~isfile(fs, infile)
          THEN /\ log' = Append(log, Entry("WARNING", "Infile not found", infile))
               /\ i' = i + 1 /\ pc' = "loop"
          ELSE IF infileextension /= S_dotinf
          THEN /\ log' = Append(log, Entry("WARNING", "Possibly not inform source code", infile))
               /\ i' = i + 1 /\ pc' = "loop"
          ELSE IF isfile(fs, storyfilename) /\ ~args.force
          THEN /\ log' = Append(log, Entry("WARNING", "Storyfilename already exists", infile))
               /\ i' = i + 1 /\ pc' = "loop"
          ELSE /\ pc' = "compile"
               /\ UNCHANGED <<log, i>>
    /\ UNCHANGED <<args, argv, fs, command, infiledirname, infilebasename,
                   infileextension, metadata, storyfilename, invoked, exitcode,
                   raised, exitat>>

\* the flags appended to command for the file at hand
withflags(cmd, a, md, dirname) ==
    LET c1 == IF a.unicode THEN Append(cmd, S_Cu) ELSE cmd
        c2 == IF a.devstage = S_release THEN Append(c1, S_nS)
              ELSE IF a.devstage = S_development THEN Append(c1, S_SDX)
              ELSE c1
        c3 == IF a.v >= 1 THEN Append(c2, S_s) ELSE c2
        c4 == IF lower(a.language) \in {S_danish, S_dansk}
              THEN Append(c3, S_language_name) ELSE c3
    IN IF a.librarypaths /= <<>>
       THEN Append(c4, <<"+">> \o a.librarypaths \o <<",">> \o dirname)
       ELSE c4

\* args['--language'] after the sprog test
language(a, md) ==
    IF S_sprog \in DOMAIN md THEN lower(md[S_sprog]) ELSE a.language

\* The rest of the loop body: the command line, the compiler, the checks of
\* its result and the javascript file.  The compiler is the environment: its
\* exit status and what it leaves at the output path are arbitrary.
Compile ==
    /\ pc = "compile"
    /\ LET infile == args.infiles[i]
           a == [args EXCEPT !.language = language(args, metadata)]
           flagged == withflags(command, a, metadata, infiledirname)
       IN /\ args' = a
          /\ IF ~bound("tmpdir")
             THEN \* command.append(tmpdir) raises NameError, uncaught
                  /\ command' = flagged
                  /\ raised' = "NameError" /\ exitcode' = 1 /\ exitat' = 223
                  /\ pc' = "exited"
                  /\ UNCHANGED <<fs, log, invoked, i>>
             ELSE \E tmpdir \in {a.tmpdir}, fails \in BOOLEAN, returncode \in {0, 1},
                     written \in {<<>>} \cup {<<b>> : b \in StoryBytes} :
                    LET cmd == flagged \o <<tmpdir, infile, storyfilename>>
                        compiled == IF written = <<>> THEN fs
                                    ELSE [p \in DOMAIN fs \cup {resolve(storyfilename)} |->
                                            IF p = resolve(storyfilename)
                                            THEN BinaryFile(written[1]) ELSE fs[p]]
                        js == resolve(storyfilename \o S_dotjs)
                    IN /\ command' = cmd
                       /\ IF fails
                          THEN \* subprocess.call raised
                               /\ log' = Append(log, Entry("ERROR", "Exception", infile))
                               /\ exitcode' = 1 /\ exitat' = 231 /\ pc' = "exited"
                               /\ UNCHANGED <<fs, invoked, raised, i>>
                          ELSE /\ invoked' = Append(invoked, join(cmd, <<" ">>))
                               /\ IF returncode /= 0
                                  THEN /\ fs' = compiled
                                       /\ log' = Append(log, Entry("ERROR", "Compilation unsuccessful", infile))
                                       /\ exitcode' = 1 /\ exitat' = 235 /\ pc' = "exited"
                                       /\ UNCHANGED <<raised, i>>
                                  ELSE IF ~isfile(compiled, storyfilename)
                                  THEN \* md5(storyfilename) opens the file before the isfile test
                                       /\ fs' = compiled
                                       /\ raised' = "FileNotFoundError"
                                       /\ exitcode' = 1 /\ exitat' = 239
                                       /\ pc' = "exited"
                                       /\ UNCHANGED <<log, i>>
                                  ELSE /\ fs' = IF a.writejs
                                                THEN [p \in DOMAIN compiled \cup {js} |->
                                                        IF p = js
                                                        THEN TextFile(<<jscontents(b64encode(
                                                                 compiled[resolve(storyfilename)].bytes))>>)
                                                        ELSE compiled[p]]
                                                ELSE compiled
                                       /\ i' = i + 1 /\ pc' = "loop"
                                       /\ UNCHANGED <<log, exitcode, raised, exitat>>
    /\ UNCHANGED <<argv, infiledirname, infilebasename, infileextension,
                   metadata, storyfilename>>

\* the end of the script after the last input path
Finish ==
    /\ pc = "loop"
    /\ i > Len(args.infiles)
    /\ exitcode' = 0
    /\ exitat' = 271
    /\ pc' = "exited"
    /\ UNCHANGED <<args, argv, fs, i, command, infiledirname, infilebasename,
                   infileextension, metadata, storyfilename, log, invoked,
                   raised>>

Next ==
    \/ CheckEnvironment
    \/ ResolveStoryfile
    \/ SkipChecks
    \/ Compile
    \/ Finish

Spec == Init /\ [][Next]_vars

(***************************************************************************)
(* Properties.                                                             *)
(***************************************************************************)
infile == args.infiles[i]
\* the run ended inside the loop body, while handling file i
EndedInLoop == pc = "exited" /\ exitat \in {142, 153, 223, 231, 235, 239}
\* the failures that end a run with sys.exit(1): compiler binary, temporary
\* directory, output directory, invocation, compiler status, output file
ListedFailures == {127, 133, 153, 231, 235, 245}
Warned(what, about) ==
    \E k \in DOMAIN log : log[k] = Entry("WARNING", what, about)

\* C1: an input path that names no file is skipped with a warning: the run
\* never ends while handling it, and every such path already handled has
\* its warning in the log.
C1_MissingInfileSkipped ==
    /\ EndedInLoop => isfile(fs, infile)
    /\ \A j \in 1..(i - 1) :
          ~isfile(fs, args.infiles[j])
              => Warned("Infile not found", args.infiles[j])

\* C2: apart from an exception out of the metadata extraction (C1, C9), a
\* run ends with exit code 1 only at one of the listed failures, and it
\* raises nothing.
C2_ExitOneOnlyOnListedFailure ==
    (pc = "exited" /\ exitcode = 1 /\ exitat /= 142)
        => (exitat \in ListedFailures /\ raised = "")

\* C4: a file whose output story file exists is skipped without --force
\* (warning, no invocation, file system untouched, next file), and is handed
\* to the compiler with --force.
C4_ExistingStoryfile ==
    [][/\ (pc = "check" /\ isfile(fs, infile) /\ infileextension = S_dotinf
              /\ isfile(fs, storyfilename))
          => IF args.force THEN pc' = "compile"
             ELSE /\ pc' = "loop" /\ i' = i + 1
                  /\ log' = Append(log, Entry("WARNING", "Storyfilename already exists", infile))
                  /\ invoked' = invoked /\ fs' = fs /\ exitcode' = exitcode
       /\ (pc = "compile" /\ isfile(fs, storyfilename) /\ args.force)
          => /\ Len(invoked') = Len(invoked) + 1
             /\ \E k \in DOMAIN command' : command'[k] = infile]_vars

\* C5: for the source whose header is `! Release: 7` and
\* `! Serial: "210101"`, with neither suffix option given, the suffix of the
\* output name is _7_210101.
C5_SuffixFromBangHeaders ==
    (pc = "check" /\ i = 1 /\ infile = Path_ax
        /\ argv.storyfilesuffix = <<>> /\ ~argv.nostorysuffix)
    => args.storyfilesuffix = <<"_", "7", "_", "2", "1", "0", "1", "0", "1">>

\* C6: the output path of a file is determined by the file's own name, its
\* own metadata and the options as given on the command line.
C6_OutputPathPerFile ==
    pc = "check" =>
        \E today \in Dates :
            storyfilename =
                withslash(outdirectory(argv, infiledirname))
                \o argv.storyfileprefix \o infilebasename
                \o storyfilesuffix(argv, metadata, today)
                \o S_dotz \o argv.storyfileversion

\* C7: with --writejs, once the compile step of a file is over without one
\* of the listed failures, <storyfile>.js holds processBase64Zcode(' + the
\* Base64 text of the story file's bytes + ');
C7_JsContents ==
    [][(pc = "compile" /\ args.writejs
          /\ ~(pc' = "exited" /\ exitat' \in ListedFailures))
       => /\ isfile(fs', storyfilename)
          /\ isfile(fs', storyfilename \o S_dotjs)
          /\ fs'[resolve(storyfilename \o S_dotjs)].lines =
                <<S_processBase64Zcode
                  \o b64encode(fs'[resolve(storyfilename)].bytes)
                  \o S_jsclose>>]_vars

\* C8: with --nostorysuffix the derived output name has no suffix part: it
\* is outdirectory + prefix + basename + '.z' + version.
C8_NoStorySuffix ==
    (pc \in {"check", "compile"} /\ argv.nostorysuffix)
    => /\ args.storyfilesuffix = <<>>
       /\ storyfilename = args.outdirectory \o args.storyfileprefix
                          \o infilebasename \o S_dotz \o args.storyfileversion
\* C8's case: a later file of the run, with release metadata, and a
\* --storyfilesuffix given next to --nostorysuffix
C8_Witness ==
    /\ pc = "check" /\ i = 2
    /\ argv.nostorysuffix /\ argv.storyfilesuffix /= <<>>
    /\ S_release \in DOMAIN metadata
    /\ storyfilename = <<"o", "u", "t", "/", "p", "_", "y", ".", "z", "5">>

\* C9: an existing input file without the .inf extension never ends the run
\* (only a missing output directory can, while it is handled), and every
\* such file already handled has its warning in the log.
C9_OtherExtensionSkipped ==
    /\ (EndedInLoop /\ isfile(fs, infile)
           /\ ospathsplitext(infile)[2] /= S_dotinf)
       => exitat = 153
    /\ \A j \in 1..(i - 1) :
          (isfile(fs, args.infiles[j])
              /\ ospathsplitext(args.infiles[j])[2] /= S_dotinf)
              => Warned("Possibly not inform source code", args.infiles[j])

\* C10: the command line assembled for a file that reaches compilation is
\* the compiler binary, then the file's own flags and library-path argument
\* (and the temporary directory), then its input path and its output path.
C10_CommandPerFile ==
    [][pc = "compile" =>
          LET own == withflags(<<args.informbin>>, args', metadata, infiledirname)
          IN command' \in {own \o <<infile, storyfilename>>,
                           own \o <<args.tmpdir, infile, storyfilename>>}]_vars

====
